---- MODULE Spec2Model ----
(***************************************************************************)
(* SmartHire backend (src/app.py): a Flask application over one SQLite     *)
(* file with two tables, jobs and applications.                            *)
(*                                                                         *)
(* Python text is modelled as a sequence of one-character strings, so that *)
(* strip(), lower(), the `in` substring test, split(",") and int() are     *)
(* computed character by character.  A JSON / Python / SQLite value is a   *)
(* tagged record: None, Str(s) or Number(n).  A parsed request body is a   *)
(* function from the keys it holds to values; a missing key is a key that  *)
(* is not in its domain.                                                   *)
(***************************************************************************)
EXTENDS Integers, Sequences, FiniteSets, TLC

VARIABLES
    dbFile,        \* os.path.exists(DB_NAME)
    jobs,          \* the jobs table: [exists, rows, seq]
    applications,  \* the applications table: [exists, rows, seq]
    pc,            \* position of the process in the __main__ block
    request,       \* the request the process served last: [op, body]
    response,      \* the response to it: [status, body]
    accepted       \* history: ids and emails of the applies answered with success

vars == <<dbFile, jobs, applications, pc, request, response, accepted>>

(***************************************************************************)
(* Bound of the model.                                                     *)
(***************************************************************************)
\* apply is not offered once the applications table holds this many rows
MaxApplications == 2

(***************************************************************************)
(* Values.                                                                 *)
(***************************************************************************)
None == [null |-> TRUE]
Str(s) == [str |-> s]
Number(n) == [int |-> n]

IsNone(v) == DOMAIN v = {"null"}
IsStr(v) == DOMAIN v = {"str"}
IsNumber(v) == DOMAIN v = {"int"}

\* Python truthiness, as used by `not x` and `x or y`
Truthy(v) ==
    IF IsNone(v) THEN FALSE
    ELSE IF IsStr(v) THEN v.str # <<>>
    ELSE v.int # 0

\* x or y
Or(x, y) == IF Truthy(x) THEN x ELSE y

\* dict.get(key) on a parsed JSON object
Get(data, key) == IF key \in DOMAIN data THEN data[key] ELSE None

(***************************************************************************)
(* Python str methods.                                                     *)
(***************************************************************************)
UpperCase == <<"A", "B", "C", "D", "E", "F", "G", "H", "I", "J", "K", "L", "M",
               "N", "O", "P", "Q", "R", "S", "T", "U", "V", "W", "X", "Y", "Z">>
LowerCase == <<"a", "b", "c", "d", "e", "f", "g", "h", "i", "j", "k", "l", "m",
               "n", "o", "p", "q", "r", "s", "t", "u", "v", "w", "x", "y", "z">>
Digits == <<"0", "1", "2", "3", "4", "5", "6", "7", "8", "9">>
Whitespace == {" ", "\t", "\n", "\r"}

LowerChar(c) ==
    IF \E i \in 1..Len(UpperCase) : UpperCase[i] = c
    THEN LowerCase[CHOOSE i \in 1..Len(UpperCase) : UpperCase[i] = c]
    ELSE c

\* s.lower()
PyLower(s) == [i \in 1..Len(s) |-> LowerChar(s[i])]

\* s.strip()
PyStrip(s) ==
    LET keep == {i \in 1..Len(s) : s[i] \notin Whitespace}
    IN  IF keep = {} THEN <<>>
        ELSE LET first == CHOOSE i \in keep : \A j \in keep : i <= j
                 last == CHOOSE i \in keep : \A j \in keep : j <= i
             IN  SubSeq(s, first, last)

\* sub in s
PyIn(sub, s) ==
    \E i \in 0..(Len(s) - Len(sub)) :
        \A k \in 1..Len(sub) : s[i + k] = sub[k]

\* s.split(sep) for a one-character sep
RECURSIVE PySplit(_, _)
PySplit(s, sep) ==
    LET hits == {i \in 1..Len(s) : s[i] = sep}
    IN  IF hits = {} THEN <<s>>
        ELSE LET i == CHOOSE h \in hits : \A g \in hits : h <= g
             IN  <<SubSeq(s, 1, i - 1)>> \o PySplit(SubSeq(s, i + 1, Len(s)), sep)

IsDigit(c) == \E i \in 1..Len(Digits) : Digits[i] = c
DigitValue(c) == (CHOOSE i \in 1..Len(Digits) : Digits[i] = c) - 1

RECURSIVE DecimalValue(_)
DecimalValue(ds) ==
    IF ds = <<>> THEN 0
    ELSE 10 * DecimalValue(SubSeq(ds, 1, Len(ds) - 1)) + DigitValue(ds[Len(ds)])

RECURSIVE DecimalText(_)
DecimalText(n) ==
    IF n < 10 THEN <<Digits[n + 1]>>
    ELSE DecimalText(n \div 10) \o <<Digits[(n % 10) + 1]>>

\* int(v): [ok |-> TRUE, val |-> n], or [ok |-> FALSE] where Python raises
\* ValueError (text that is no integer literal) or TypeError (None)
PyInt(v) ==
    IF IsNumber(v) THEN [ok |-> TRUE, val |-> v.int]
    ELSE IF IsNone(v) THEN [ok |-> FALSE]
    ELSE LET t == PyStrip(v.str)
             signed == t # <<>> /\ t[1] \in {"+", "-"}
             ds == IF signed THEN Tail(t) ELSE t
         IN  IF ds # <<>> /\ \A i \in 1..Len(ds) : IsDigit(ds[i])
             THEN [ok |-> TRUE,
                   val |-> IF signed /\ t[1] = "-" THEN 0 - DecimalValue(ds)
                           ELSE DecimalValue(ds)]
             ELSE [ok |-> FALSE]

\* f"{v}"
PyFormat(v) ==
    IF IsNone(v) THEN <<"N", "o", "n", "e">>
    ELSE IF IsStr(v) THEN v.str
    ELSE IF v.int < 0 THEN <<"-">> \o DecimalText(0 - v.int)
    ELSE DecimalText(v.int)

(***************************************************************************)
(* SQLite tables.  AUTOINCREMENT keeps the largest id ever given in seq    *)
(* (sqlite_sequence) and gives seq + 1 to the next row.                    *)
(***************************************************************************)
NoTable == [exists |-> FALSE, rows |-> <<>>, seq |-> 0]

\* CreateTableIfNotExists with a fault: CREATE TABLE after a DROP TABLE
CreateTableAfterDrop(t) == [exists |-> TRUE, rows |-> <<>>, seq |-> t.seq]

\* CREATE TABLE IF NOT EXISTS
CreateTableIfNotExists(t) ==
    IF t.exists THEN t ELSE [exists |-> TRUE, rows |-> <<>>, seq |-> 0]

\* SELECT COUNT(*)
Count(t) == Len(t.rows)

\* Insert with a fault: the sequence is not advanced
InsertKeepingSeq(t, row) ==
    [exists |-> TRUE,
     rows |-> Append(t.rows, [k \in DOMAIN row \cup {"id"} |->
                                 IF k = "id" THEN Number(t.seq + 1) ELSE row[k]]),
     seq |-> t.seq]

\* INSERT of one row given without its id
Insert(t, row) ==
    [exists |-> TRUE,
     rows |-> Append(t.rows, [k \in DOMAIN row \cup {"id"} |->
                                 IF k = "id" THEN Number(t.seq + 1) ELSE row[k]]),
     seq |-> t.seq + 1]

\* executemany: one INSERT per element, in order
RECURSIVE ExecuteMany(_, _)
ExecuteMany(t, rows) ==
    IF rows = <<>> THEN t
    ELSE ExecuteMany(Insert(t, Head(rows)), Tail(rows))

(***************************************************************************)
(* Literals of the source.                                                 *)
(***************************************************************************)
EnDash == "U+2013"
Applied == <<"A", "p", "p", "l", "i", "e", "d">>

JobRow(title, location, experience, skills) ==
    [title |-> Str(title), location |-> Str(location),
     experience |-> Number(experience), skills |-> Str(skills)]

SeedData ==
    << JobRow(<<"P", "y", "t", "h", "o", "n", " ", "B", "a", "c", "k", "e", "n", "d", " ",
                "D", "e", "v", "e", "l", "o", "p", "e", "r">>,
              <<"C", "h", "e", "n", "n", "a", "i">>,
              1,
              <<"P", "y", "t", "h", "o", "n", ",", "F", "l", "a", "s", "k", ",", "S", "Q", "L">>),
       JobRow(<<"F", "r", "o", "n", "t", "e", "n", "d", " ",
                "D", "e", "v", "e", "l", "o", "p", "e", "r">>,
              <<"R", "e", "m", "o", "t", "e">>,
              0,
              <<"H", "T", "M", "L", ",", "C", "S", "S", ",",
                "J", "a", "v", "a", "S", "c", "r", "i", "p", "t">>),
       JobRow(<<"F", "u", "l", "l", " ", "S", "t", "a", "c", "k", " ",
                "E", "n", "g", "i", "n", "e", "e", "r">>,
              <<"B", "a", "n", "g", "a", "l", "o", "r", "e">>,
              2,
              <<"R", "e", "a", "c", "t", ",", "N", "o", "d", "e", ",", "S", "Q", "L">>) >>

(***************************************************************************)
(* init_db and seed_jobs, as functions of the tables.                      *)
(***************************************************************************)
\* SeedJobsTable with a fault: the count guard is dropped
SeedJobsUnguarded(t) == ExecuteMany(t, SeedData)

\* seed_jobs: the three demo jobs, only into an empty table
SeedJobsTable(t) ==
    IF Count(t) = 0 THEN ExecuteMany(t, SeedData) ELSE t

(***************************************************************************)
(* Responses.  An exception that leaves a view function is answered by     *)
(* Flask with status 500; a body that is not JSON makes request.json raise *)
(* BadRequest, answered with status 400.                                   *)
(***************************************************************************)
Json(status, body) == [status |-> status, body |-> body]
InternalServerError == [status |-> 500, body |-> [error |-> "Internal Server Error"]]
BadRequest == [status |-> 400, body |-> [error |-> "Bad Request"]]

\* a request body: text that parses to a JSON object, or text that does not
Object(o) == [json |-> o]
Malformed == [malformed |-> TRUE]
EmptyObject == <<>>

\* request.json or {}  /  request.get_json() or {}, for a body that parses
JsonOrEmpty(body) == body.json

\* a SELECT or INSERT on table t raises sqlite3.Error
Raises(t, fault) == fault \/ ~t.exists

(***************************************************************************)
(* GET /jobs                                                               *)
(***************************************************************************)
JobObject(r) ==
    [id |-> r.id, title |-> r.title, location |-> r.location,
     experience |-> r.experience,
     skills |-> IF Truthy(r.skills) THEN PySplit(r.skills.str, ",") ELSE <<>>]

GetJobsResponse(t, fault) ==
    IF Raises(t, fault) THEN InternalServerError
    ELSE Json(200, [jobs |-> [i \in 1..Len(t.rows) |-> JobObject(t.rows[i])]])

(***************************************************************************)
(* POST /jobs/search                                                       *)
(***************************************************************************)
\* Matches with a fault: the skills text is not searched
MatchesTitleOnly(skill, title_lower, skills_lower) ==
    skill = <<>> \/ PyIn(skill, title_lower)

\* not skill or (skill in title_lower) or (skill in skills_lower)
Matches(skill, title_lower, skills_lower) ==
    skill = <<>> \/ PyIn(skill, title_lower) \/ PyIn(skill, skills_lower)

Display(r) ==
    LET skills_text == Or(r.skills, Str(<<>>)).str
        display == PyFormat(r.title) \o <<" ", EnDash, " ">> \o PyFormat(r.location)
                   \o <<" ", "(">> \o PyFormat(r.experience)
                   \o <<" ", "y", "r", " ", "e", "x", "p", ")">>
    IN  IF skills_text # <<>>
        THEN display \o <<" ", "|", " ", "S", "k", "i", "l", "l", "s", ":", " ">>
                     \o skills_text
        ELSE display

\* the for loop over rows, building result_strings
RECURSIVE ResultStrings(_, _)
ResultStrings(rows, skill) ==
    IF rows = <<>> THEN <<>>
    ELSE LET r == Head(rows)
             title_lower == PyLower(Or(r.title, Str(<<>>)).str)
             skills_lower == PyLower(Or(r.skills, Str(<<>>)).str)
         IN  (IF Matches(skill, title_lower, skills_lower) THEN <<Display(r)>> ELSE <<>>)
             \o ResultStrings(Tail(rows), skill)

\* the body of the try block: [raised |-> TRUE] when an exception leaves it
SearchTry(body, t, fault) ==
    IF body = Malformed THEN [raised |-> TRUE]
    ELSE LET given == Or(Get(JsonOrEmpty(body), "skill"), Str(<<>>))
         IN  IF ~IsStr(given) THEN [raised |-> TRUE]
             ELSE IF Raises(t, fault) THEN [raised |-> TRUE]
             ELSE [raised |-> FALSE,
                   result_strings |-> ResultStrings(t.rows, PyLower(PyStrip(given.str)))]

\* sqlite3.connect(DB_NAME) is reached, which creates the file when absent
SearchConnects(body) ==
    body # Malformed /\ IsStr(Or(Get(JsonOrEmpty(body), "skill"), Str(<<>>)))

\* SearchResponse with a fault: no except clause
SearchResponseUncaught(body, t, fault) ==
    LET try == SearchTry(body, t, fault)
    IN  IF try.raised THEN InternalServerError
        ELSE Json(200, [jobs |-> try.result_strings])

SearchResponse(body, t, fault) ==
    LET try == SearchTry(body, t, fault)
    IN  IF try.raised THEN Json(200, [jobs |-> <<>>])
        ELSE Json(200, [jobs |-> try.result_strings])

(***************************************************************************)
(* POST /apply                                                             *)
(***************************************************************************)
\* int(data.get("experience") or 0)
Experience(data) == PyInt(Or(Get(data, "experience"), Number(0)))

\* not job_id or not name or not email
RequiredMissing(job_id, name, email) ==
    ~Truthy(job_id) \/ ~Truthy(name) \/ ~Truthy(email)

\* ApplicationRow with a fault: the email column is left out of the INSERT
ApplicationRowNoEmail(job_id, name, email, phone, experience, skills) ==
    [job_id |-> job_id, name |-> name, email |-> None, phone |-> phone,
     experience |-> Number(experience), skills |-> skills, status |-> Str(Applied)]

\* ApplicationRow with a fault: the status column is given as NULL
ApplicationRowNoStatus(job_id, name, email, phone, experience, skills) ==
    [job_id |-> job_id, name |-> name, email |-> email, phone |-> phone,
     experience |-> Number(experience), skills |-> skills, status |-> None]

\* the row of the INSERT; status is the column's DEFAULT 'Applied'
ApplicationRow(job_id, name, email, phone, experience, skills) ==
    [job_id |-> job_id, name |-> name, email |-> email, phone |-> phone,
     experience |-> Number(experience), skills |-> skills, status |-> Str(Applied)]

\* sqlite3.connect(DB_NAME) is reached
ApplyConnects(body) ==
    /\ body # Malformed
    /\ Experience(JsonOrEmpty(body)).ok
    /\ ~RequiredMissing(Get(JsonOrEmpty(body), "job_id"), Get(JsonOrEmpty(body), "name"),
                        Get(JsonOrEmpty(body), "email"))

\* what apply_job does: [response, table], the applications table after it
Apply(body, t, fault) ==
    IF body = Malformed THEN [response |-> BadRequest, table |-> t]
    ELSE LET data == JsonOrEmpty(body)
             job_id == Get(data, "job_id")
             name == Get(data, "name")
             email == Get(data, "email")
             phone == Get(data, "phone")
             experience == Experience(data)
             skills == Or(Get(data, "skills"), Str(<<>>))
         IN  IF ~experience.ok THEN [response |-> InternalServerError, table |-> t]
             ELSE IF RequiredMissing(job_id, name, email)
             THEN [response |-> Json(400, [success |-> FALSE,
                                           message |-> "Required fields missing"]),
                   table |-> t]
             ELSE IF Raises(t, fault) THEN [response |-> InternalServerError, table |-> t]
             ELSE [response |-> Json(200, [success |-> TRUE,
                                           message |-> "Application submitted successfully!"]),
                   table |-> Insert(t, ApplicationRow(job_id, name, email, phone,
                                                      experience.val, skills))]

(***************************************************************************)
(* POST /my-applications                                                   *)
(***************************************************************************)
\* ON a.job_id = j.id
JoinOn(a, j) == ~IsNone(a.job_id) /\ a.job_id = j.id

\* Where with a fault: every application is selected
WhereAny(a, email) == TRUE

\* WHERE a.email = ?
Where(a, email) == ~IsNone(a.email) /\ a.email = email

\* SELECT a.id, j.title, a.status FROM applications a JOIN jobs j ...
RECURSIVE Select(_, _, _)
Select(as, js, email) ==
    IF as = <<>> THEN <<>>
    ELSE LET a == Head(as)
             matching == SelectSeq(js, LAMBDA j : JoinOn(a, j) /\ Where(a, email))
         IN  [i \in 1..Len(matching) |->
                 [application_id |-> a.id, job_title |-> matching[i].title,
                  status |-> a.status]]
             \o Select(Tail(as), js, email)

\* sqlite3.connect(DB_NAME) is reached
MyApplicationsConnects(body) ==
    body # Malformed /\ Truthy(Get(JsonOrEmpty(body), "email"))

MyApplicationsResponse(body, a, j, fault) ==
    IF body = Malformed THEN BadRequest
    ELSE LET email == Get(JsonOrEmpty(body), "email")
         IN  IF ~Truthy(email)
             THEN Json(400, [success |-> FALSE, message |-> "Email is required"])
             ELSE IF Raises(a, fault) \/ Raises(j, fault) THEN InternalServerError
             ELSE Json(200, [success |-> TRUE,
                             applications |-> Select(a.rows, j.rows, email)])

(***************************************************************************)
(* Requests the model sends.                                               *)
(***************************************************************************)
EmailA == <<"a", "@", "x", ".", "c", "o", "m">>
EmailB == <<"b", "@", "x", ".", "c", "o", "m">>

JobIdOptions ==
    {EmptyObject, "job_id" :> None, "job_id" :> Number(1), "job_id" :> Number(9)}
NameOptions ==
    {EmptyObject, "name" :> Str(<<>>), "name" :> Str(<<"A">>)}
EmailOptions ==
    {EmptyObject, "email" :> Str(<<>>), "email" :> Str(EmailA), "email" :> Str(EmailB)}
OtherOptions ==
    {EmptyObject,
     ("phone" :> Str(<<"9", "8", "7">>)) @@ ("experience" :> Str(<<" ", "2">>))
        @@ ("skills" :> Str(<<"S", "Q", "L">>)),
     "experience" :> Str(<<"a", "b", "c">>)}

\* the required fields that `not` finds missing in a JSON object
Missing(o) == {k \in {"job_id", "name", "email"} : ~Truthy(Get(o, k))}

\* objects with at most one required field missing, the optional fields sent
\* only beside job 1 and the first email; and the empty object
ApplyObjects ==
    {o \in {j @@ n @@ e @@ x : j \in JobIdOptions, n \in NameOptions,
                                e \in EmailOptions, x \in OtherOptions} :
        /\ Cardinality(Missing(o)) <= 1
        /\ "phone" \in DOMAIN o =>
              Get(o, "job_id") # Number(9) /\ Get(o, "email") # Str(EmailB)}
    \cup {EmptyObject}

ApplyBodies == {Object(o) : o \in ApplyObjects} \cup {Malformed}

SearchObjects ==
    {EmptyObject, "skill" :> None, "skill" :> Number(5),
     "skill" :> Str(<<>>),
     "skill" :> Str(<<"p", "y", "t", "h", "o", "n">>),
     "skill" :> Str(<<" ", " ", "P", "y", "T", "h", "o", "n", " ">>),
     "skill" :> Str(<<"S", "Q", "L">>),
     "skill" :> Str(<<"e", "n", "d", " ", "d">>),
     "skill" :> Str(<<"c", "s", "s">>),
     "skill" :> Str(<<"j", "a", "v", "a", " ", "e", "e">>)}

SearchBodies == {Object(o) : o \in SearchObjects} \cup {Malformed}

MyApplicationsObjects ==
    {EmptyObject, "email" :> None, "email" :> Str(<<>>),
     "email" :> Str(EmailA), "email" :> Str(EmailB),
     "email" :> Str(<<"A", "@", "x", ".", "c", "o", "m">>)}

MyApplicationsBodies == {Object(o) : o \in MyApplicationsObjects} \cup {Malformed}

(***************************************************************************)
(* The process: the __main__ block, then serving requests.                 *)
(***************************************************************************)
NoRequest == [op |-> "none"]
NoResponse == [status |-> 0]

Init ==
    /\ dbFile = FALSE
    /\ jobs = NoTable
    /\ applications = NoTable
    /\ pc = "stopped"
    /\ request = NoRequest
    /\ response = NoResponse
    /\ accepted = {}

\* if not os.path.exists(DB_NAME): ... else: ...
Main ==
    /\ pc = "stopped"
    /\ pc' = IF dbFile THEN "else_init_db" ELSE "then_init_db"
    /\ UNCHANGED <<dbFile, jobs, applications, request, response, accepted>>

init_db ==
    /\ pc \in {"then_init_db", "else_init_db"}
    /\ dbFile' = TRUE
    /\ jobs' = CreateTableIfNotExists(jobs)
    /\ applications' = CreateTableIfNotExists(applications)
    /\ pc' = IF pc = "then_init_db" THEN "seed_jobs" ELSE "app_run"
    /\ UNCHANGED <<request, response, accepted>>

seed_jobs ==
    /\ pc = "seed_jobs"
    /\ jobs' = SeedJobsTable(jobs)
    /\ pc' = "app_run"
    /\ UNCHANGED <<dbFile, applications, request, response, accepted>>

\* app.run(...): the process starts to serve requests
app_run ==
    /\ pc = "app_run"
    /\ pc' = "serving"
    /\ UNCHANGED <<dbFile, jobs, applications, request, response, accepted>>

\* the serving process ends; the database file stays
Exit ==
    /\ pc = "serving"
    /\ pc' = "stopped"
    /\ request' = NoRequest
    /\ response' = NoResponse
    /\ UNCHANGED <<dbFile, jobs, applications, accepted>>

(***************************************************************************)
(* The view functions.  fault: the storage engine raises on this request.  *)
(* They run in the process started by the __main__ block, and in a process *)
(* that imported the module (a test client, a WSGI server).                *)
(***************************************************************************)
Serving == pc \in {"serving", "imported"}

get_jobs(fault) ==
    /\ Serving
    /\ request' = [op |-> "get_jobs", fault |-> fault]
    /\ response' = GetJobsResponse(jobs, fault)
    /\ dbFile' = TRUE
    /\ UNCHANGED <<jobs, applications, pc, accepted>>

search_jobs(body, fault) ==
    /\ Serving
    /\ request' = [op |-> "search_jobs", body |-> body, fault |-> fault]
    /\ response' = SearchResponse(body, jobs, fault)
    /\ dbFile' = (dbFile \/ SearchConnects(body))
    /\ UNCHANGED <<jobs, applications, pc, accepted>>

apply_job(body, fault) ==
    /\ Serving
    /\ Count(applications) < MaxApplications
    /\ LET done == Apply(body, applications, fault)
       IN  /\ request' = [op |-> "apply_job", body |-> body, fault |-> fault]
           /\ response' = done.response
           /\ applications' = done.table
           /\ accepted' = IF done.response.status = 200
                          THEN accepted \cup {[id |-> Number(done.table.seq),
                                               job_id |-> body.json.job_id,
                                               email |-> body.json.email]}
                          ELSE accepted
    /\ dbFile' = (dbFile \/ ApplyConnects(body))
    /\ UNCHANGED <<jobs, pc>>

my_applications(body, fault) ==
    /\ Serving
    /\ request' = [op |-> "my_applications", body |-> body, fault |-> fault]
    /\ response' = MyApplicationsResponse(body, applications, jobs, fault)
    /\ dbFile' = (dbFile \/ MyApplicationsConnects(body))
    /\ UNCHANGED <<jobs, applications, pc, accepted>>

health ==
    /\ Serving
    /\ request' = [op |-> "health"]
    /\ response' = Json(200, [status |-> "ok"])
    /\ UNCHANGED <<dbFile, jobs, applications, pc, accepted>>

\* the storage engine never fails
Next ==
    \/ Main
    \/ init_db
    \/ seed_jobs
    \/ app_run
    \/ Exit
    \/ get_jobs(FALSE)
    \/ \E body \in SearchBodies : search_jobs(body, FALSE)
    \/ \E body \in ApplyBodies : apply_job(body, FALSE)
    \/ \E body \in MyApplicationsBodies : my_applications(body, FALSE)
    \/ health

Spec == Init /\ [][Next]_vars

\* the storage engine may fail on any request
NextFault ==
    \/ Main
    \/ init_db
    \/ seed_jobs
    \/ app_run
    \/ Exit
    \/ \E fault \in BOOLEAN : get_jobs(fault)
    \/ \E body \in SearchBodies, fault \in BOOLEAN : search_jobs(body, fault)
    \/ \E body \in ApplyBodies, fault \in BOOLEAN : apply_job(body, fault)
    \/ \E body \in MyApplicationsBodies, fault \in BOOLEAN : my_applications(body, fault)
    \/ health

SpecFault == Init /\ [][NextFault]_vars
(***************************************************************************)
(* The module imported and its functions called directly, in any order:    *)
(* init_db() and seed_jobs() as often as the caller likes, and the view    *)
(* functions.  No __main__ block runs.                                     *)
(***************************************************************************)
InitCalls ==
    /\ dbFile = FALSE
    /\ jobs = NoTable
    /\ applications = NoTable
    /\ pc = "imported"
    /\ request = NoRequest
    /\ response = NoResponse
    /\ accepted = {}

call_init_db ==
    /\ pc = "imported"
    /\ request' = [op |-> "init_db"]
    /\ response' = NoResponse
    /\ dbFile' = TRUE
    /\ jobs' = CreateTableIfNotExists(jobs)
    /\ applications' = CreateTableIfNotExists(applications)
    /\ UNCHANGED <<pc, accepted>>

\* count: what SELECT COUNT(*) returned; raised: the SELECT found no jobs table
call_seed_jobs ==
    /\ pc = "imported"
    /\ request' = [op |-> "seed_jobs", raised |-> ~jobs.exists, count |-> Count(jobs)]
    /\ response' = NoResponse
    /\ dbFile' = TRUE
    /\ jobs' = IF jobs.exists THEN SeedJobsTable(jobs) ELSE jobs
    /\ UNCHANGED <<applications, pc, accepted>>

NextCalls ==
    \/ call_init_db
    \/ call_seed_jobs
    \/ get_jobs(FALSE)
    \/ \E body \in SearchBodies : search_jobs(body, FALSE)
    \/ \E body \in ApplyBodies : apply_job(body, FALSE)
    \/ \E body \in MyApplicationsBodies : my_applications(body, FALSE)
    \/ health

SpecCalls == InitCalls /\ [][NextCalls]_vars

(***************************************************************************)
(* Properties.                                                             *)
(***************************************************************************)
\* this step serves a request of the given view function
Serves(op) == Serving /\ request'.op = op /\ pc' = pc

\* the JSON object of the request served last (of a body that parses)
Sent == request.body.json

RequiredMissingResponse ==
    Json(400, [success |-> FALSE, message |-> "Required fields missing"])
SubmittedResponse ==
    Json(200, [success |-> TRUE, message |-> "Application submitted successfully!"])
EmailRequiredResponse ==
    Json(400, [success |-> FALSE, message |-> "Email is required"])

\* a value that is present, is text, and is no integer literal
NonNumeric(v) == IsStr(v) /\ v.str # <<>> /\ ~PyInt(v).ok

LastRow(t) == t.rows[Len(t.rows)]

IsPrefix(s, t) == Len(s) <= Len(t) /\ SubSeq(t, 1, Len(s)) = s

UniqueIds(t) ==
    \A i, k \in 1..Len(t.rows) : t.rows[i].id = t.rows[k].id => i = k

\* the jobs table holds the three demo jobs, in order, and nothing else
ThreeDemoJobs(t) ==
    /\ Len(t.rows) = 3
    /\ \A i \in 1..3 :
         /\ t.rows[i].id = Number(i)
         /\ \A k \in DOMAIN SeedData[i] : t.rows[i][k] = SeedData[i][k]
    /\ t.rows[1].title.str = <<"P", "y", "t", "h", "o", "n", " ", "B", "a", "c", "k", "e",
                               "n", "d", " ", "D", "e", "v", "e", "l", "o", "p", "e", "r">>
    /\ t.rows[2].title.str = <<"F", "r", "o", "n", "t", "e", "n", "d", " ",
                               "D", "e", "v", "e", "l", "o", "p", "e", "r">>
    /\ t.rows[3].title.str = <<"F", "u", "l", "l", " ", "S", "t", "a", "c", "k", " ",
                               "E", "n", "g", "i", "n", "e", "e", "r">>

\* C1: every apply request in which job_id, name or email is missing, null or
\* empty, whatever its other fields hold, is answered 400 "Required fields
\* missing" and leaves the applications table as it was.
C1_MissingFieldRejected ==
    [][(Serves("apply_job") /\ request'.body # Malformed
            /\ Missing(request'.body.json) # {})
        => (response' = RequiredMissingResponse /\ applications' = applications)]_vars

\* C1, the part the code keeps: such a request never changes the applications table
C1_MissingFieldAddsNoRow ==
    [][(Serves("apply_job") /\ request'.body # Malformed
            /\ Missing(request'.body.json) # {})
        => applications' = applications]_vars

\* C2: an apply request with non-empty job_id, name and email and without
\* phone, experience and skills succeeds and adds exactly one row, with the
\* job_id, name and email sent, status "Applied", experience 0 and skills "".
C2_MinimalApply ==
    [][(Serves("apply_job") /\ request'.body # Malformed
            /\ Missing(request'.body.json) = {}
            /\ DOMAIN request'.body.json \cap {"phone", "experience", "skills"} = {})
        => /\ response' = SubmittedResponse
           /\ Len(applications'.rows) = Len(applications.rows) + 1
           /\ IsPrefix(applications.rows, applications'.rows)
           /\ LastRow(applications').job_id = request'.body.json.job_id
           /\ LastRow(applications').name = request'.body.json.name
           /\ LastRow(applications').email = request'.body.json.email
           /\ LastRow(applications').status = Str(Applied)
           /\ LastRow(applications').experience = Number(0)
           /\ LastRow(applications').skills = Str(<<>>)]_vars

C2_Witness ==
    /\ request.op = "apply_job"
    /\ request.body # Malformed
    /\ Missing(Sent) = {}
    /\ DOMAIN Sent \cap {"phone", "experience", "skills"} = {}
    /\ response = SubmittedResponse
    /\ Count(applications) = 2
    /\ LastRow(applications).email = Sent.email

\* C3: an apply request with valid job_id, name and email whose experience is
\* present but non-numeric gets the success response, and its row has experience 0.
C3_NonNumericExperienceCoerced ==
    (request.op = "apply_job" /\ request.body # Malformed
        /\ Missing(Sent) = {} /\ NonNumeric(Get(Sent, "experience")))
    => /\ response = SubmittedResponse
       /\ Count(applications) > 0
       /\ LastRow(applications).experience = Number(0)

\* C4: after one or more seed_jobs calls on an initialized database the jobs
\* table holds exactly the three demo jobs, never more than 3 rows, and a call
\* that finds the table non-empty leaves it unchanged.
C4_SeedIdempotent ==
    [][(request'.op = "seed_jobs" /\ jobs.exists)
        => /\ ThreeDemoJobs(jobs')
           /\ Count(jobs') <= 3
           /\ Count(jobs) # 0 => jobs' = jobs]_vars

C4_Witness ==
    /\ request.op = "seed_jobs"
    /\ ~request.raised
    /\ request.count = 3
    /\ Count(jobs) = 3

\* C5: after every process start both tables exist and the jobs table holds
\* the three seed jobs, and a start that finds the database file present
\* adds, changes and removes no job row and no application row.
C5_StartCreatesAndSeeds ==
    [][/\ pc' = "serving" =>
            jobs'.exists /\ applications'.exists /\ ThreeDemoJobs(jobs')
       /\ ((pc = "stopped" /\ dbFile) \/ pc = "else_init_db" \/ pc = "app_run") =>
            jobs'.rows = jobs.rows /\ applications'.rows = applications.rows]_vars

\* a process that was started again over a database holding applications
C5_Witness ==
    /\ pc = "serving"
    /\ request = NoRequest
    /\ Count(applications) = 2
    /\ Count(jobs) = 3

\* the rows my-applications is to report for email e: the applications with
\* that email, each paired with the job its job_id names
Reported(e) ==
    {<<a, j>> \in (1..Count(applications)) \X (1..Count(jobs)) :
        /\ applications.rows[a].email = e
        /\ applications.rows[a].job_id = jobs.rows[j].id}

Substring(t, s) ==
    \E before, after \in 0..Len(s) :
        /\ before + Len(t) + after = Len(s)
        /\ SubSeq(s, before + 1, before + Len(t)) = t

\* the skill of a search request as the claim reads it: trimmed, lowercased
Needle == PyLower(PyStrip(Or(Get(Sent, "skill"), Str(<<>>)).str))

Wanted(r) ==
    \/ Needle = <<>>
    \/ Substring(Needle, PyLower(r.title.str))
    \/ Substring(Needle, PyLower(r.skills.str))

StartsWith(s, t) == Len(t) <= Len(s) /\ SubSeq(s, 1, Len(t)) = t

\* C7: search returns one display string for exactly the jobs for which the
\* trimmed, lowercased skill is empty or occurs in the lowercased title or in
\* the lowercased skills text, in table order; an empty skill returns every
\* job, and "python" returns "Python Backend Developer" and not "Frontend
\* Developer" on the seed data.
C7_SearchMatches ==
    (request.op = "search_jobs" /\ request.body # Malformed
        /\ IsStr(Or(Get(Sent, "skill"), Str(<<>>))))
    => LET found == response.body.jobs
           wanted == SelectSeq(jobs.rows, Wanted)
       IN  /\ response.status = 200
           /\ found = [i \in 1..Len(wanted) |-> Display(wanted[i])]
           /\ Needle = <<>> => Len(found) = Count(jobs)
           /\ (Needle = <<"p", "y", "t", "h", "o", "n">> /\ ThreeDemoJobs(jobs)) =>
                /\ \E i \in 1..Len(found) : StartsWith(found[i], SeedData[1].title.str)
                /\ \A i \in 1..Len(found) : ~StartsWith(found[i], SeedData[2].title.str)

\* a skill found in the skills text only, of the first and the third job
C7_Witness ==
    /\ request.op = "search_jobs"
    /\ request.body # Malformed
    /\ Get(Sent, "skill") = Str(<<"S", "Q", "L">>)
    /\ Len(response.body.jobs) = 2
    /\ response.body.jobs[2] = Display(jobs.rows[3])

\* an exception was raised inside the try block of search_jobs
SearchErrorOccurred ==
    \/ request.fault
    \/ ~jobs.exists
    \/ request.body = Malformed
    \/ ~IsStr(Or(Get(Sent, "skill"), Str(<<>>)))

\* C8: search never fails the request: whatever the body and the storage
\* state, also when reading the jobs table raises, the response is 200 with a
\* "jobs" list of strings, and the list is empty whenever an error occurred.
C8_SearchNeverFails ==
    request.op = "search_jobs"
    => /\ response.status = 200
       /\ DOMAIN response.body = {"jobs"}
       /\ \A i \in 1..Len(response.body.jobs) :
            \E k \in 1..Count(jobs) : response.body.jobs[i] = Display(jobs.rows[k])
       /\ SearchErrorOccurred => response.body.jobs = <<>>

C8_Witness ==
    /\ request.op = "search_jobs"
    /\ request.fault
    /\ request.body # Malformed
    /\ Get(Sent, "skill") = Str(<<>>)
    /\ Count(jobs) = 3
    /\ response = Json(200, [jobs |-> <<>>])

\* C9: rows are append-only: no step changes or removes a job row or an
\* application row, ids stay unique, the jobs table never changes once
\* seeded, a successful apply adds exactly one application row with a fresh
\* id, and every other request, a rejected apply too, changes neither table.
C9_AppendOnly ==
    [][/\ IsPrefix(jobs.rows, jobs'.rows)
       /\ IsPrefix(applications.rows, applications'.rows)
       /\ UniqueIds(jobs') /\ UniqueIds(applications')
       /\ Count(jobs) # 0 => jobs'.rows = jobs.rows
       /\ (Serves("apply_job") /\ response'.status = 200) =>
            /\ Len(applications'.rows) = Len(applications.rows) + 1
            /\ \A i \in 1..Len(applications.rows) :
                 applications.rows[i].id # LastRow(applications').id
            /\ jobs'.rows = jobs.rows
       /\ (Serving /\ ~(request'.op = "apply_job" /\ response'.status = 200)) =>
            jobs'.rows = jobs.rows /\ applications'.rows = applications.rows]_vars

C9_Witness ==
    /\ request.op = "apply_job"
    /\ response = SubmittedResponse
    /\ Count(applications) = 2
    /\ applications.rows[1].id = Number(1)
    /\ applications.rows[2].id = Number(2)

\* the email of the my-applications request served last was accepted by apply
\* for these applications
AcceptedForSent == {x \in accepted : x.email = Sent.email}

Lists(x) ==
    \E i \in 1..Len(response.body.applications) :
        response.body.applications[i].application_id = x.id

====
